---- MODULE Spec2Model ----
(***************************************************************************)
(* Model of the duplex audio engine (src/services/liveClient.ts,           *)
(* class LiveClient) together with the application glue that drives it     *)
(* (src/App.tsx, handleConnect / handleDisconnect / client.onError).       *)
(*                                                                         *)
(* Time is counted in ticks of 0.1 s of the output device clock            *)
(* (AudioContext.currentTime), so the 0.1 s tolerance of the end-of-buffer *)
(* check is one tick and the durations 0.5 s / 0.3 s are 5 and 3.          *)
(*                                                                         *)
(* Every await of the code is a scheduling point: the part of a handler    *)
(* before an await and the part after it are separate actions, and other   *)
(* callbacks may run in between.                                           *)
(*                                                                         *)
(* The model follows one mounted App and the one LiveClient it creates:    *)
(* handleConnect constructs a new client for every connection, so a second *)
(* connection is a second instance of this model.  The remote session, the *)
(* microphone, the decoder and the device clock are the environment: their *)
(* outcomes are chosen nondeterministically.                               *)
(*                                                                         *)
(* The second part models the face tracker (src/unnamed/part_001, class    *)
(* FaceTracker) and the camera effect of AvatarDisplay that drives it      *)
(* (src/unnamed/part_000, lines 60-87).  Scores, angles and distances are  *)
(* fixed-point numbers in thousandths; a product with 0.7 or 1.5 is        *)
(* rounded down to a thousandth.  The page clock (performance.now()) is    *)
(* counted in half tracking intervals, so 1000/24 ms is two ticks.         *)
(***************************************************************************)
EXTENDS Integers, Sequences, FiniteSets, TLC

\* ------------------------------------------------------------- bounds
\* Spec is the whole life of one client (connect, session callbacks, capture,
\* metering, playback, teardown); SpecPlay is the playback of a connected
\* client, explored with more messages and a longer clock; SpecSend is the
\* connection and the capture of one client, explored with more blocks;
\* SpecTrack is the face tracker and SpecLoop the tracker across several
\* switch-ons of the camera; SpecSmooth is the smoothing towards a constant
\* target; SpecAnim is the render tick of AvatarDisplay with the camera
\* setting fixed, and SpecBlink the automatic blink with the camera setting
\* changing.
\* number of inbound messages delivered by the remote session (SpecPlay)
MaxMsgs == 2
\* last value of the device clock that is explored (SpecPlay)
MaxClock == 6
\* number of inbound messages delivered by the remote session (Spec)
MaxLiveMsgs == 1
\* last value of the device clock that is explored (Spec)
MaxLiveClock == 3
\* number of render ticks (SpecAnim)
MaxFrames == 4
\* number of smoothing steps in a row (SpecSmooth)
MaxSmooth == 10
\* render ticks after which a blink left over from autonomous mode is
\* expected to be gone in tracking mode (SpecBlink)
SettleTicks == 3
\* number of microphone blocks captured (Spec)
MaxLiveBlocks == 1
\* number of microphone blocks captured (SpecSend)
MaxBlocks == 3
\* number of times the camera is switched on (SpecTrack)
MaxStarts == 1
\* times the camera is switched on (SpecLoop)
MaxLoopStarts == 2
\* number of animation frames on which predict runs (SpecTrack)
MaxTicks == 3
\* last value of the page clock that is explored (SpecTrack)
MaxNow == 4

\* ---------------------------------------------------------- constants
\* tolerance of the end-of-buffer check, 0.1 s, in ticks
Tol == 1
\* buffer durations delivered by the decoder, in ticks (0.3 s, 0.5 s)
DurChoices == {3, 5}
\* FRAME_INTERVAL, 1000/24 ms, in ticks of the page clock
FrameInterval == 2
\* SMOOTHING_FACTOR, 0.7, in tenths
SmoothingFactor == 7
\* the threshold under which a target score counts as 0, 0.05, in thousandths
SnapBelow == 50

VARIABLES
  \* --- LiveClient fields
  inputAudioContext,   \* "null" | "ctx"
  outputAudioContext,  \* "null" | "ctx"
  mediaStream,         \* "null" | "stream"
  processor,           \* "null" | "node"
  source,              \* "null" | "node"
  nextStartTime,       \* ticks
  sessionPromise,      \* "null" | "promise"
  currentSession,      \* "null" | "session"
  analyser,            \* "null" | "node"
  volumeInterval,      \* "null" | "id"
  \* --- resources behind the fields
  inCtxState,          \* "none" | "running" | "closing" | "closed"
  outCtxState,         \* "none" | "running" | "closing" | "closed"
  micTracks,           \* "none" | "live" | "stopped"
  procConnected,       \* the capture processor is wired and delivers blocks
  timerActive,         \* the 50 ms metering interval is armed
  promiseState,        \* "none" | "pending" | "resolved" | "rejected"
  remote,              \* "none" | "connecting" | "open" | "errored" | "closed"
  clock,               \* outputAudioContext.currentTime, ticks
  \* --- positions of the async methods
  connPc,              \* "idle" | "awaitMic" | "awaitSession" | "done" | "failed"
  discPc,              \* "idle" | "awaitInClose" | "awaitOutClose" | "done"
  \* --- inbound playback
  msgCount,            \* messages delivered so far
  lastIntr,            \* the message delivered last carried the interrupted flag
  inflight,            \* handleMessage invocations suspended in the decode
  scheduled,           \* buffer sources started and not yet ended
  \* --- outbound capture
  blockCount,          \* blocks captured so far
  queue,               \* blocks waiting behind the session promise
  sent,                \* blocks handed to sendRealtimeInput, in order
  flushed,             \* blocks that were sent from the queue
  \* --- emitted events
  startBit,            \* flips at every onAiSpeakingStart
  stopBit,             \* flips at every onAiSpeakingStop
  speaking,            \* "Idle" | "Speaking": the last of the two events
  errorN,              \* number of onError emitted
  aiVolBit,            \* flips at every onAiVolumeChange
  userVolBit,          \* flips at every onUserVolumeChange
  \* --- App state
  liveClientRef,       \* "null" | "client"
  status,              \* ConnectionStatus
  isAiTalking,
  \* --- history of the playback cursor
  contiguous,          \* a buffer was started and the cursor was neither
                       \* reset nor raised to the clock since
  runStart,            \* start time of the first buffer of the current run
  runSum,              \* sum of the durations of the current run
  lastStart,           \* start time of the buffer started last in the run
  lastDur,             \* duration of the buffer started last in the run
  intrSeen,            \* an interruption was handled
  everStarted,         \* a buffer was started
  \* --- FaceTracker fields
  faceLandmarker,      \* "null" | "loaded"
  video,               \* "null" | "el"
  lastTrackingTime,    \* page clock of the last inference
  isRunning,
  targetBlendshapes,   \* key -> score
  currentBlendshapes,  \* key -> score
  neutralBlendshapes,  \* _neutralBlendshapes
  neutralRotation,     \* _neutralRotation
  neutralPosition,     \* _neutralPosition
  isCalibrated,        \* _isCalibrated
  targetRotation,      \* _targetRotation
  targetPosition,      \* _targetPosition
  rotation,
  position,
  \* --- the camera, the video element and the browser behind the fields
  isCameraEnabled,     \* the prop of AvatarDisplay
  initPending,         \* start() invocations awaiting initialize()
  camPending,          \* start() invocations awaiting getUserMedia()
  srcObject,           \* video.srcObject: "null" | "stream"
  strayStreams,        \* live camera streams that nothing refers to
  listeners,           \* loadeddata listeners on the video element
  loadPending,         \* the attached stream has not delivered loadeddata
  frameFresh,          \* video.currentTime # lastVideoTime
  armed,               \* requestAnimationFrame callbacks of predict pending
  pageNow,             \* performance.now(), ticks
  \* --- history of the tracker
  startN,              \* times the camera was switched on
  tickN,               \* animation frames on which predict ran
  stopped,             \* stop() returned and start() was not called since
  calibBit,            \* flips at every calibrate()
  inferBit,            \* flips at every detectForVideo call
  lastOutcome,         \* what the last predict did
  lastInferAt,         \* page clock of the last detectForVideo call, -1: none
  \* --- AvatarDisplay: the expression manager of the loaded avatar and the
  \* refs that animate reads
  em,                  \* expression name -> weight passed to setValue last
  isAiTalkingRef,
  aiVolumeRef,         \* thousandths
  isCameraEnabledRef,
  isBlinkingRef,
  blinkTimeout,        \* "null" | "armed": the next-blink timer
  frameN,              \* render ticks so far
  blinkTimers,         \* next-blink timers that are pending
  blinkDelay,          \* delay of the pending timer in ms, 0 when none is
  hipsX,               \* hips.position.x, in 1e-7 scene units
  hipsAt,              \* <<calibrated x>> of the tick that wrote the hips
                       \* last, <<>> before the first
  sinceSwitch          \* render ticks since the camera setting changed last

clientVars == <<inputAudioContext, outputAudioContext, mediaStream, processor,
                source, sessionPromise, currentSession, volumeInterval,
                inCtxState, outCtxState, micTracks, procConnected, timerActive,
                discPc>>
runVars == <<contiguous, runStart, runSum, lastStart, lastDur>>
playVars == <<nextStartTime, msgCount, lastIntr, inflight, scheduled, startBit, stopBit,
              speaking, runVars, intrSeen, everStarted>>
sendVars == <<blockCount, queue, sent, flushed, userVolBit>>
appVars == <<liveClientRef, status, isAiTalking>>
vars == <<clientVars, playVars, sendVars, appVars, analyser, promiseState,
          remote, clock, connPc, errorN, aiVolBit>>

camVars == <<faceLandmarker, video, isCameraEnabled, initPending, camPending,
             srcObject, strayStreams, listeners, loadPending, startN, stopped>>
targetVars == <<targetBlendshapes, targetRotation, targetPosition>>
smoothVars == <<currentBlendshapes, rotation, position>>
neutralVars == <<neutralBlendshapes, neutralRotation, neutralPosition>>
calibVars == <<neutralVars, isCalibrated, calibBit>>
loopVars == <<lastTrackingTime, frameFresh, inferBit, lastOutcome, lastInferAt>>
trackVars == <<camVars, targetVars, smoothVars, calibVars, loopVars, isRunning,
               armed, pageNow, tickN>>
animVars == <<em, isAiTalkingRef, aiVolumeRef, isCameraEnabledRef, isBlinkingRef,
              blinkTimeout, frameN, blinkTimers, blinkDelay, hipsX, hipsAt,
              sinceSwitch>>
sceneVars == <<trackVars, animVars>>
allVars == <<vars, trackVars, animVars>>

Max(a, b) == IF a >= b THEN a ELSE b

Vec(a, b, c) == [x |-> a, y |-> b, z |-> c]

\* FaceTracker field initialisers and constructor, part_001 lines 255-283
TrackInit ==
  /\ faceLandmarker = "null" /\ video = "null"
  /\ lastTrackingTime = 0 /\ isRunning = FALSE
  /\ targetBlendshapes = <<>> /\ currentBlendshapes = <<>>
  /\ neutralBlendshapes = <<>>
  /\ neutralRotation = Vec(0, 0, 0) /\ neutralPosition = Vec(0, 0, 0)
  /\ isCalibrated = FALSE
  /\ targetRotation = Vec(0, 0, 0) /\ targetPosition = Vec(0, 0, 0)
  /\ rotation = Vec(0, 0, 0) /\ position = Vec(0, 0, 0)
  /\ isCameraEnabled = FALSE /\ initPending = 0 /\ camPending = 0
  /\ srcObject = "null" /\ strayStreams = 0 /\ listeners = 0
  /\ loadPending = FALSE /\ frameFresh = FALSE /\ armed = 0 /\ pageNow = 0
  /\ startN = 0 /\ tickN = 0 /\ stopped = FALSE
  /\ calibBit = FALSE /\ inferBit = FALSE
  /\ lastOutcome = "none" /\ lastInferAt = -1

\* the weights of a freshly loaded avatar
NoExpression ==
  [blinkLeft |-> 0, blinkRight |-> 0, blink |-> 0, happy |-> 0, angry |-> 0,
   sad |-> 0, surprised |-> 0, aa |-> 0, ou |-> 0, oh |-> 0]

\* the values of Math.random() that are told apart, in thousandths
RandomChoices == {0, 999}

\* scheduleNextBlink, line 381: Math.random() * 4000 + 1000
BlinkDelay(random) == 4 * random + 1000

\* AvatarDisplay mounted with the camera disabled and the avatar loaded:
\* the refs (part_000 lines 35-40) and the blink effect (lines 385-388),
\* whose scheduleNextBlink drew random
AnimMount(random) ==
  /\ em = NoExpression
  /\ isAiTalkingRef = FALSE /\ aiVolumeRef = 0 /\ isCameraEnabledRef = FALSE
  /\ isBlinkingRef = FALSE /\ blinkTimeout = "armed"
  /\ frameN = 0
  /\ blinkTimers = 1 /\ blinkDelay = BlinkDelay(random)
  /\ hipsX = 0 /\ hipsAt = <<>> /\ sinceSwitch = 0

AnimInit == AnimMount(0)

ClientInit ==
  /\ inputAudioContext = "null" /\ outputAudioContext = "null"
  /\ mediaStream = "null" /\ processor = "null" /\ source = "null"
  /\ nextStartTime = 0
  /\ sessionPromise = "null" /\ currentSession = "null"
  /\ analyser = "null" /\ volumeInterval = "null"
  /\ inCtxState = "none" /\ outCtxState = "none" /\ micTracks = "none"
  /\ procConnected = FALSE /\ timerActive = FALSE
  /\ promiseState = "none" /\ remote = "none" /\ clock = 0
  /\ connPc = "idle" /\ discPc = "idle"
  /\ msgCount = 0 /\ lastIntr = FALSE /\ inflight = {} /\ scheduled = {}
  /\ blockCount = 0 /\ queue = <<>> /\ sent = <<>> /\ flushed = 0
  /\ startBit = FALSE /\ stopBit = FALSE /\ speaking = "Idle" /\ errorN = 0
  /\ aiVolBit = FALSE /\ userVolBit = FALSE
  /\ liveClientRef = "null" /\ status = "disconnected" /\ isAiTalking = FALSE
  /\ contiguous = FALSE /\ runStart = 0 /\ runSum = 0
  /\ lastStart = 0 /\ lastDur = 0
  /\ intrSeen = FALSE /\ everStarted = FALSE

Init == ClientInit /\ TrackInit /\ AnimInit

\* ------------------------------------------------------------ teardown
\* a teardown that forgets clearInterval
KeepInterval(interval, active) == active

\* LiveClient.disconnect, lines 166-169: clearInterval cancels the timer
ClearInterval(interval, active) == IF interval # "null" THEN FALSE ELSE active

\* a teardown that leaves the capture processor wired
KeepProcessor(proc, connected) == connected

\* LiveClient.disconnect, lines 170-173: processor.disconnect()
DisconnectProcessor(proc, connected) == IF proc # "null" THEN FALSE ELSE connected

\* LiveClient.disconnect, lines 178-181: every track of the stream is stopped
StopTracks(stream, tracks) == IF stream # "null" THEN "stopped" ELSE tracks

\* LiveClient.disconnect, lines 190-191
DropSession ==
  /\ currentSession' = "null"
  /\ sessionPromise' = "null"
  /\ discPc' = "done"

\* LiveClient.disconnect from its call to its first await (lines 166-183)
DisconnectBegin ==
  /\ volumeInterval' = "null"
  /\ timerActive' = ClearInterval(volumeInterval, timerActive)
  /\ processor' = "null"
  /\ procConnected' = DisconnectProcessor(processor, procConnected)
  /\ source' = "null"
  /\ mediaStream' = "null"
  /\ micTracks' = StopTracks(mediaStream, micTracks)
  /\ IF inputAudioContext # "null"
       THEN /\ inCtxState' = "closing"
            /\ discPc' = "awaitInClose"
            /\ UNCHANGED <<inputAudioContext, outputAudioContext, outCtxState,
                           currentSession, sessionPromise>>
       ELSE /\ UNCHANGED <<inputAudioContext, inCtxState>>
            /\ IF outputAudioContext # "null"
                 THEN /\ outCtxState' = "closing"
                      /\ discPc' = "awaitOutClose"
                      /\ UNCHANGED <<outputAudioContext, currentSession,
                                     sessionPromise>>
                 ELSE /\ UNCHANGED <<outputAudioContext, outCtxState>>
                      /\ DropSession

\* LiveClient.disconnect resumed after inputAudioContext.close() (lines 183-187)
DisconnectInClosed ==
  /\ discPc = "awaitInClose"
  /\ inCtxState' = "closed"
  /\ inputAudioContext' = "null"
  /\ IF outputAudioContext # "null"
       THEN /\ outCtxState' = "closing"
            /\ discPc' = "awaitOutClose"
            /\ UNCHANGED <<outputAudioContext, currentSession, sessionPromise>>
       ELSE /\ UNCHANGED <<outputAudioContext, outCtxState>>
            /\ DropSession
  /\ UNCHANGED <<mediaStream, processor, source, volumeInterval, micTracks,
                 procConnected, timerActive>>
  /\ UNCHANGED <<playVars, sendVars, appVars, analyser, promiseState, remote,
                 clock, connPc, errorN, aiVolBit>>

\* LiveClient.disconnect resumed after outputAudioContext.close() (lines 187-191)
DisconnectOutClosed ==
  /\ discPc = "awaitOutClose"
  /\ outCtxState' = "closed"
  /\ outputAudioContext' = "null"
  /\ DropSession
  /\ UNCHANGED <<inputAudioContext, mediaStream, processor, source,
                 volumeInterval, inCtxState, micTracks, procConnected,
                 timerActive>>
  /\ UNCHANGED <<playVars, sendVars, appVars, analyser, promiseState, remote,
                 clock, connPc, errorN, aiVolBit>>

\* App.handleDisconnect, lines 129-136, without the status it sets (line 133)
HandleDisconnectCall ==
  /\ IF liveClientRef # "null"
       THEN DisconnectBegin /\ liveClientRef' = "null"
       ELSE UNCHANGED <<clientVars, liveClientRef>>
  /\ isAiTalking' = FALSE

\* the user presses the button while connected (Controls: onDisconnect)
HandleDisconnect ==
  /\ status = "connected"
  /\ HandleDisconnectCall
  /\ status' = "disconnected"
  /\ UNCHANGED <<playVars, sendVars, analyser, promiseState, remote, clock,
                 connPc, errorN, aiVolBit>>

\* ------------------------------------------------------------- connect
\* App.handleConnect lines 85-117 and LiveClient.connect up to the await of
\* getUserMedia (lines 31-43); startMonitoringAiVolume arms the timer
HandleConnect ==
  /\ status \in {"disconnected", "error"}
  /\ connPc = "idle"
  /\ status' = "connecting"
  /\ inputAudioContext' = "ctx" /\ inCtxState' = "running"
  /\ outputAudioContext' = "ctx" /\ outCtxState' = "running"
  /\ analyser' = "node"
  /\ volumeInterval' = "id" /\ timerActive' = TRUE
  /\ connPc' = "awaitMic"
  /\ UNCHANGED <<mediaStream, processor, source, sessionPromise, currentSession,
                 micTracks, procConnected, discPc>>
  /\ UNCHANGED <<playVars, sendVars, liveClientRef, isAiTalking, promiseState,
                 remote, clock, errorN, aiVolBit>>

\* LiveClient.connect lines 43-66: the microphone is granted, the session
\* connect is issued and awaited
MicGranted ==
  /\ connPc = "awaitMic"
  /\ mediaStream' = "stream" /\ micTracks' = "live"
  /\ sessionPromise' = "promise" /\ promiseState' = "pending"
  /\ remote' = "connecting"
  /\ connPc' = "awaitSession"
  /\ UNCHANGED <<inputAudioContext, outputAudioContext, processor, source,
                 currentSession, volumeInterval, inCtxState, outCtxState,
                 procConnected, timerActive, discPc>>
  /\ UNCHANGED <<playVars, sendVars, appVars, analyser, clock, errorN, aiVolBit>>

\* LiveClient.connect catch block (lines 68-72), client.onError as set by the
\* App (lines 96-100) and the catch of handleConnect (lines 122-125)
ConnectCatch ==
  /\ errorN' = errorN + 1
  /\ HandleDisconnectCall
  /\ status' = "error"
  /\ connPc' = "failed"

\* getUserMedia rejects
MicDenied ==
  /\ connPc = "awaitMic"
  /\ ConnectCatch
  /\ UNCHANGED <<playVars, sendVars, analyser, promiseState, remote, clock,
                 aiVolBit>>

\* LiveClient.startAudioInput (lines 113-144), called by handleOpen
StartAudioInput ==
  IF inputAudioContext = "null" \/ mediaStream = "null"
    THEN UNCHANGED <<source, processor, procConnected>>
    ELSE source' = "node" /\ processor' = "node" /\ procConnected' = TRUE

\* the session's onopen callback: LiveClient.handleOpen (lines 75-78)
SessionOpen ==
  /\ remote = "connecting"
  /\ remote' = "open"
  /\ StartAudioInput
  /\ UNCHANGED <<inputAudioContext, outputAudioContext, mediaStream,
                 sessionPromise, currentSession, volumeInterval, inCtxState,
                 outCtxState, micTracks, timerActive, discPc>>
  /\ UNCHANGED <<playVars, sendVars, appVars, analyser, promiseState, clock,
                 connPc, errorN, aiVolBit>>

\* the callbacks queued on the session promise run last-registered first
FlushLifo(done, waiting) ==
  done \o [i \in 1..Len(waiting) |-> waiting[Len(waiting) + 1 - i]]

\* the then-callbacks registered on the session promise (lines 136-138) run in
\* the order they were registered
Flush(done, waiting) == done \o waiting

\* the session promise resolves: LiveClient.connect line 66, the sends queued
\* behind the promise (lines 136-138) and App.handleConnect lines 119-120
ConnectResolved ==
  /\ connPc = "awaitSession" /\ promiseState = "pending" /\ remote = "open"
  /\ promiseState' = "resolved"
  /\ currentSession' = "session"
  /\ sent' = Flush(sent, queue) /\ queue' = <<>>
  /\ flushed' = flushed + Len(queue)
  /\ connPc' = "done"
  /\ liveClientRef' = "client"
  /\ status' = "connected"
  /\ UNCHANGED <<inputAudioContext, outputAudioContext, mediaStream, processor,
                 source, sessionPromise, volumeInterval, inCtxState, outCtxState,
                 micTracks, procConnected, timerActive, discPc>>
  /\ UNCHANGED <<playVars, blockCount, userVolBit, isAiTalking, analyser,
                 remote, clock, errorN, aiVolBit>>

\* the session promise rejects: the sends queued behind it are never made
ConnectRejected ==
  /\ connPc = "awaitSession" /\ promiseState = "pending"
  /\ remote \in {"connecting", "errored", "closed"}
  /\ promiseState' = "rejected"
  /\ remote' = "closed"
  /\ queue' = <<>>
  /\ ConnectCatch
  /\ UNCHANGED <<playVars, blockCount, sent, flushed, userVolBit, analyser,
                 clock, aiVolBit>>

\* the session's onerror callback (lines 51-54) and client.onError as set by
\* the App (lines 96-100)
SessionError ==
  /\ remote \in {"connecting", "open"}
  /\ remote' = "errored"
  /\ errorN' = errorN + 1
  /\ HandleDisconnectCall
  /\ status' = "disconnected"
  /\ UNCHANGED <<playVars, sendVars, analyser, promiseState, clock, connPc,
                 aiVolBit>>

\* the session's onclose callback (line 50): it only logs
SessionClose ==
  /\ remote \in {"open", "errored"}
  /\ remote' = "closed"
  /\ UNCHANGED <<clientVars, playVars, sendVars, appVars, analyser,
                 promiseState, clock, connPc, errorN, aiVolBit>>

\* ------------------------------------------------------------ metering
\* the interval callback of startMonitoringAiVolume (lines 151-162)
MeterTick ==
  /\ timerActive
  /\ analyser # "null"
  /\ aiVolBit' = ~aiVolBit
  /\ UNCHANGED <<clientVars, playVars, sendVars, appVars, analyser,
                 promiseState, remote, clock, connPc, errorN>>

\* processor.onaudioprocess (lines 121-140)
AudioProcess ==
  /\ procConnected
  /\ blockCount < MaxBlocks
  /\ blockCount' = blockCount + 1
  /\ userVolBit' = ~userVolBit
  /\ IF sessionPromise # "null" /\ promiseState = "resolved"
       THEN sent' = Append(sent, blockCount + 1) /\ UNCHANGED queue
       ELSE IF sessionPromise # "null" /\ promiseState = "pending"
         THEN queue' = Append(queue, blockCount + 1) /\ UNCHANGED sent
         ELSE UNCHANGED <<queue, sent>>
  /\ UNCHANGED flushed
  /\ UNCHANGED <<clientVars, playVars, appVars, analyser, promiseState, remote,
                 clock, connPc, errorN, aiVolBit>>

\* ---------------------------------------------------- inbound playback
\* the outcomes of decodeAudioData (utils/audioUtils): a buffer, or a rejection
\* for a malformed chunk
DecodeOutcomes == {"ok", "error"}

\* handleMessage line 83: the audio branch is taken
TakesAudioBranch(audio) ==
  audio /\ outputAudioContext # "null" /\ analyser # "null"

\* a handler that emits onAiSpeakingStart for the first pending buffer only
EmitsStartIfIdle(pending) == ~pending

\* handleMessage line 84: onAiSpeakingStart is emitted for the payload;
\* pending tells whether an earlier buffer is still pending
EmitsStart(pending) == TRUE

\* a time sync that sets the cursor to the device clock
ResyncTime(cursor, now) == now

\* handleMessage line 87: "ensure time sync"
SyncTime(cursor, now) == Max(cursor, now)

\* a handler that starts every buffer at the current device time
StartNow(cursor, now) == now

\* handleMessage line 103: the argument of source.start
StartArg(cursor, now) == cursor

\* handleMessage line 104: the cursor after the buffer was started
Advance(cursor, dur) == cursor + dur

\* the 'ended' listener, line 98
EndedEmitsStop(ctx, now, cursor) == ctx # "null" /\ now + Tol >= cursor

\* the device time at which a started buffer stops sounding: a start time in
\* the past starts the buffer at once
EndOf(b) == Max(b.start, b.at) + b.dur

\* a started buffer that has not finished sounding
Pending(b) == clock < EndOf(b)

\* some received audio is still being decoded or has not finished sounding
AudioPending == inflight # {} \/ \E b \in scheduled : Pending(b)

\* the run of back-to-back buffers is broken
BreakRun ==
  /\ contiguous' = FALSE
  /\ runStart' = 0 /\ runSum' = 0 /\ lastStart' = 0 /\ lastDur' = 0

\* handleMessage lines 107-110
Interrupt ==
  /\ nextStartTime' = 0
  /\ stopBit' = ~stopBit
  /\ speaking' = "Idle"
  /\ isAiTalking' = FALSE
  /\ intrSeen' = TRUE
  /\ BreakRun

\* the session's onmessage callback: handleMessage from its call to the await
\* of the decode (lines 81-90), or to its end when there is nothing to decode
\* (lines 81-83, 107-110)
MessageArrive(audio, dur, intr) ==
  /\ remote = "open"
  /\ msgCount < MaxMsgs
  /\ audio \/ intr
  /\ msgCount' = msgCount + 1
  /\ lastIntr' = intr
  /\ IF TakesAudioBranch(audio)
       THEN /\ IF EmitsStart(AudioPending)
                 THEN /\ startBit' = ~startBit
                      /\ speaking' = "Speaking"
                      /\ isAiTalking' = TRUE
                 ELSE UNCHANGED <<startBit, speaking, isAiTalking>>
            /\ nextStartTime' = SyncTime(nextStartTime, clock)
            /\ IF clock > nextStartTime
                 THEN BreakRun
                 ELSE UNCHANGED runVars
            /\ inflight' = inflight \cup
                 {[id |-> msgCount + 1, dur |-> dur, intr |-> intr]}
            /\ UNCHANGED <<stopBit, intrSeen>>
       ELSE /\ IF intr
                 THEN Interrupt
                 ELSE UNCHANGED <<nextStartTime, stopBit, speaking, isAiTalking,
                                  runVars, intrSeen>>
            /\ UNCHANGED <<startBit, inflight>>
  /\ UNCHANGED <<scheduled, everStarted>>
  /\ UNCHANGED <<clientVars, sendVars, liveClientRef, status, analyser,
                 promiseState, remote, clock, connPc, errorN, aiVolBit>>

\* handleMessage resumed with the decoded buffer (lines 92-110); with the
\* output context dropped, line 92 throws and the handler ends there
DecodeResume(m) ==
  /\ m \in inflight
  /\ "ok" \in DecodeOutcomes
  /\ inflight' = inflight \ {m}
  /\ IF outputAudioContext = "null"
       THEN UNCHANGED <<nextStartTime, scheduled, stopBit, speaking,
                        isAiTalking, runVars, intrSeen, everStarted>>
       ELSE /\ scheduled' = scheduled \cup
                 {[id |-> m.id, start |-> StartArg(nextStartTime, clock),
                   dur |-> m.dur, at |-> clock]}
            /\ everStarted' = TRUE
            /\ IF m.intr
                 THEN Interrupt
                 ELSE /\ nextStartTime' = Advance(nextStartTime, m.dur)
                      /\ contiguous' = TRUE
                      /\ lastStart' = StartArg(nextStartTime, clock)
                      /\ lastDur' = m.dur
                      /\ IF contiguous
                           THEN runSum' = runSum + m.dur /\ UNCHANGED runStart
                           ELSE /\ runSum' = m.dur
                                /\ runStart' = StartArg(nextStartTime, clock)
                      /\ UNCHANGED <<stopBit, speaking, isAiTalking, intrSeen>>
  /\ UNCHANGED <<msgCount, lastIntr, startBit>>
  /\ UNCHANGED <<clientVars, sendVars, liveClientRef, status, analyser,
                 promiseState, remote, clock, connPc, errorN, aiVolBit>>

\* the decode rejects: the await at line 90 throws and the handler ends there
DecodeFail(m) ==
  /\ m \in inflight
  /\ "error" \in DecodeOutcomes
  /\ inflight' = inflight \ {m}
  /\ UNCHANGED <<nextStartTime, msgCount, lastIntr, scheduled, startBit, stopBit,
                 speaking, runVars, intrSeen, everStarted>>
  /\ UNCHANGED <<clientVars, sendVars, appVars, analyser, promiseState, remote,
                 clock, connPc, errorN, aiVolBit>>

\* the 'ended' event of a started buffer (lines 97-101)
Ended(b) ==
  /\ b \in scheduled
  /\ outCtxState \in {"running", "closing"}
  /\ clock >= EndOf(b)
  /\ scheduled' = scheduled \ {b}
  /\ IF EndedEmitsStop(outputAudioContext, clock, nextStartTime)
       THEN /\ stopBit' = ~stopBit
            /\ speaking' = "Idle"
            /\ isAiTalking' = FALSE
       ELSE UNCHANGED <<stopBit, speaking, isAiTalking>>
  /\ UNCHANGED <<nextStartTime, msgCount, lastIntr, inflight, startBit, runVars,
                 intrSeen, everStarted>>
  /\ UNCHANGED <<clientVars, sendVars, liveClientRef, status, analyser,
                 promiseState, remote, clock, connPc, errorN, aiVolBit>>

\* the output device clock advances while its context is not closed
Tick ==
  /\ outCtxState \in {"running", "closing"}
  /\ clock < MaxClock
  /\ clock' = clock + 1
  /\ UNCHANGED <<clientVars, playVars, sendVars, appVars, analyser,
                 promiseState, remote, connPc, errorN, aiVolBit>>

\* ------------------------------------------------------- specification
Next ==
  \/ HandleConnect /\ UNCHANGED sceneVars
  \/ MicGranted /\ UNCHANGED sceneVars
  \/ MicDenied /\ UNCHANGED sceneVars
  \/ SessionOpen /\ UNCHANGED sceneVars
  \/ ConnectResolved /\ UNCHANGED sceneVars
  \/ ConnectRejected /\ UNCHANGED sceneVars
  \/ SessionError /\ UNCHANGED sceneVars
  \/ SessionClose /\ UNCHANGED sceneVars
  \/ HandleDisconnect /\ UNCHANGED sceneVars
  \/ DisconnectInClosed /\ UNCHANGED sceneVars
  \/ DisconnectOutClosed /\ UNCHANGED sceneVars
  \/ MeterTick /\ UNCHANGED sceneVars
  \/ blockCount < MaxLiveBlocks /\ AudioProcess /\ UNCHANGED sceneVars
  \/ \E audio \in BOOLEAN, dur \in DurChoices, intr \in BOOLEAN :
       msgCount < MaxLiveMsgs /\ MessageArrive(audio, dur, intr)
       /\ UNCHANGED sceneVars
  \/ \E m \in inflight : DecodeResume(m) /\ UNCHANGED sceneVars
  \/ \E m \in inflight : DecodeFail(m) /\ UNCHANGED sceneVars
  \/ \E b \in scheduled : Ended(b) /\ UNCHANGED sceneVars
  \/ clock < MaxLiveClock /\ Tick /\ UNCHANGED sceneVars

Spec == Init /\ [][Next]_vars

NextSend ==
  \/ HandleConnect /\ UNCHANGED sceneVars
  \/ MicGranted /\ UNCHANGED sceneVars
  \/ MicDenied /\ UNCHANGED sceneVars
  \/ SessionOpen /\ UNCHANGED sceneVars
  \/ ConnectResolved /\ UNCHANGED sceneVars
  \/ ConnectRejected /\ UNCHANGED sceneVars
  \/ SessionError /\ UNCHANGED sceneVars
  \/ SessionClose /\ UNCHANGED sceneVars
  \/ HandleDisconnect /\ UNCHANGED sceneVars
  \/ DisconnectInClosed /\ UNCHANGED sceneVars
  \/ DisconnectOutClosed /\ UNCHANGED sceneVars
  \/ AudioProcess /\ UNCHANGED sceneVars

SpecSend == Init /\ [][NextSend]_vars

\* the client right after a successful connect
InitPlay ==
  /\ inputAudioContext = "ctx" /\ outputAudioContext = "ctx"
  /\ mediaStream = "stream" /\ processor = "node" /\ source = "node"
  /\ nextStartTime = 0
  /\ sessionPromise = "promise" /\ currentSession = "session"
  /\ analyser = "node" /\ volumeInterval = "id"
  /\ inCtxState = "running" /\ outCtxState = "running" /\ micTracks = "live"
  /\ procConnected = TRUE /\ timerActive = TRUE
  /\ promiseState = "resolved" /\ remote = "open" /\ clock = 0
  /\ connPc = "done" /\ discPc = "idle"
  /\ msgCount = 0 /\ lastIntr = FALSE /\ inflight = {} /\ scheduled = {}
  /\ blockCount = 0 /\ queue = <<>> /\ sent = <<>> /\ flushed = 0
  /\ startBit = FALSE /\ stopBit = FALSE /\ speaking = "Idle" /\ errorN = 0
  /\ aiVolBit = FALSE /\ userVolBit = FALSE
  /\ liveClientRef = "client" /\ status = "connected" /\ isAiTalking = FALSE
  /\ contiguous = FALSE /\ runStart = 0 /\ runSum = 0
  /\ lastStart = 0 /\ lastDur = 0
  /\ intrSeen = FALSE /\ everStarted = FALSE
  /\ TrackInit /\ AnimInit

NextPlay ==
  \/ \E audio \in BOOLEAN, dur \in DurChoices, intr \in BOOLEAN :
       MessageArrive(audio, dur, intr)
       /\ UNCHANGED sceneVars
  \/ \E m \in inflight : DecodeResume(m) /\ UNCHANGED sceneVars
  \/ \E m \in inflight : DecodeFail(m) /\ UNCHANGED sceneVars
  \/ \E b \in scheduled : Ended(b) /\ UNCHANGED sceneVars
  \/ Tick /\ UNCHANGED sceneVars

SpecPlay == InitPlay /\ [][NextPlay]_vars

\* ======================================================================
\* The face tracker (src/unnamed/part_001) driven by the camera effect of
\* AvatarDisplay (src/unnamed/part_000)
\* ======================================================================

\* what detectForVideo can do: throw, find no face, or return the scores of
\* a face, with or without its transformation matrix (euler: the angles of
\* the matrix, trans: its elements 12..14)
Outcomes ==
  { [kind |-> "threw", shapes |-> <<>>, matrix |-> FALSE,
     euler |-> Vec(0, 0, 0), trans |-> Vec(0, 0, 0)],
    [kind |-> "noface", shapes |-> <<>>, matrix |-> FALSE,
     euler |-> Vec(0, 0, 0), trans |-> Vec(0, 0, 0)],
    [kind |-> "face", shapes |-> ("jawOpen" :> 1000), matrix |-> FALSE,
     euler |-> Vec(0, 0, 0), trans |-> Vec(0, 0, 0)],
    [kind |-> "face", shapes |-> ("jawOpen" :> 200 @@ "eyeBlinkLeft" :> 40),
     matrix |-> TRUE,
     euler |-> Vec(100, -200, 300), trans |-> Vec(10, 20, -500)] }

\* obj[key] || 0
OrZero(obj, key) == IF key \in DOMAIN obj THEN obj[key] ELSE 0

\* a lerp with the two weights exchanged
LerpSwapped(start, end) ==
  (SmoothingFactor * start + (10 - SmoothingFactor) * end) \div 10

\* FaceTracker.lerp with amt = SMOOTHING_FACTOR, lines 464-466
Lerp(start, end) ==
  ((10 - SmoothingFactor) * start + SmoothingFactor * end) \div 10

LerpVec(start, end) ==
  Vec(Lerp(start.x, end.x), Lerp(start.y, end.y), Lerp(start.z, end.z))

\* FaceTracker.updateSmoothing, lines 480-485: the blendshape loop
SmoothShapes(current, target) ==
  [key \in DOMAIN current \cup DOMAIN target |->
     IF key \in DOMAIN target
       THEN LET cleanTarget == IF target[key] < SnapBelow THEN 0 ELSE target[key]
            IN Lerp(OrZero(current, key), cleanTarget)
       ELSE current[key]]

\* FaceTracker.updateSmoothing, lines 468-486, on the smoothed state
\* sm = <<currentBlendshapes, rotation, position>> towards the targets tg
UpdateSmoothing(sm, tg) ==
  <<SmoothShapes(sm[1], tg[1]), LerpVec(sm[2], tg[2]), LerpVec(sm[3], tg[3])>>

RECURSIVE SmoothTimes(_, _, _)
\* n calls of updateSmoothing in a row
SmoothTimes(n, sm, tg) ==
  IF n = 0 THEN sm ELSE SmoothTimes(n - 1, UpdateSmoothing(sm, tg), tg)

\* a predict without the throttle
NoThrottle(elapsed) == TRUE

\* FaceTracker.predict, line 422: the throttle of the tracking loop
Throttle(elapsed) == elapsed >= FrameInterval

\* FaceTracker.predict, lines 422-423: inference runs on this call
PassesGate(playing) ==
  /\ Throttle(pageNow - lastTrackingTime)
  /\ frameFresh /\ playing

\* targets that are replaced by the result instead of merged with it
TargetsReplaced(o) ==
  <<o.shapes, targetRotation, targetPosition>>

\* FaceTracker.predict, lines 430-451: the targets after the inference
TargetsAfter(o) ==
  IF o.kind = "face"
    THEN <<o.shapes @@ targetBlendshapes,
           IF o.matrix THEN Vec(o.euler.x, -o.euler.y, -o.euler.z)
                       ELSE targetRotation,
           IF o.matrix THEN Vec(-o.trans.x, -o.trans.y, -o.trans.z)
                       ELSE targetPosition>>
    ELSE <<targetBlendshapes, targetRotation, targetPosition>>

\* FaceTracker.predict past its first line (lines 418-457), called n times
\* in a row at one reading of the page clock: the first call may run the
\* inference, the later ones find the throttle closed; each smooths once
PredictBody(o, playing, n) ==
  LET tg == IF PassesGate(playing) THEN TargetsAfter(o)
            ELSE <<targetBlendshapes, targetRotation, targetPosition>>
      sm == SmoothTimes(n, <<currentBlendshapes, rotation, position>>, tg)
  IN /\ IF PassesGate(playing)
          THEN /\ lastTrackingTime' = pageNow
               /\ frameFresh' = FALSE
               /\ inferBit' = ~inferBit
               /\ lastInferAt' = pageNow
               /\ lastOutcome' = o.kind
          ELSE /\ lastOutcome' = "gated"
               /\ UNCHANGED <<lastTrackingTime, frameFresh, inferBit, lastInferAt>>
     /\ targetBlendshapes' = tg[1]
     /\ targetRotation' = tg[2]
     /\ targetPosition' = tg[3]
     /\ currentBlendshapes' = sm[1]
     /\ rotation' = sm[2]
     /\ position' = sm[3]

\* a predict that asks for no further animation frame
NoRearm(count, running) == count - 1

\* FaceTracker.predict, lines 459-461: the callback that ran is replaced by a
\* new one while tracking is running
Rearm(count, running) == IF running THEN count ELSE count - 1

\* a stop that keeps the calibration
KeepCalibration(calibrated) == calibrated

\* FaceTracker.stop, line 348
ResetCalibration(calibrated) == FALSE

\* FaceTracker.stop, lines 340-350
StopTracker ==
  /\ isRunning' = FALSE
  /\ srcObject' = "null"
  /\ loadPending' = IF video # "null" /\ srcObject # "null" THEN FALSE
                    ELSE loadPending
  /\ isCalibrated' = ResetCalibration(isCalibrated)
  /\ neutralBlendshapes' = <<>>
  /\ UNCHANGED <<neutralRotation, neutralPosition>>

\* the camera is switched on: the cleanup of the previous effect run calls
\* stop(), then initCamera calls start(), which runs up to its first await
\* (part_000 lines 60-87, part_001 lines 312-316)
TurnOn ==
  /\ ~isCameraEnabled
  /\ isCameraEnabled' = TRUE
  /\ startN' = startN + 1
  /\ StopTracker
  /\ stopped' = FALSE
  /\ IF faceLandmarker = "null"
       THEN initPending' = initPending + 1 /\ UNCHANGED camPending
       ELSE camPending' = camPending + 1 /\ UNCHANGED initPending
  /\ UNCHANGED <<faceLandmarker, video, strayStreams, listeners, calibBit,
                 targetVars, smoothVars, loopVars, armed, pageNow, tickN>>
  /\ UNCHANGED vars

\* the camera is switched on, at most MaxStarts times
CameraOn == startN < MaxStarts /\ TurnOn

\* the camera is switched off: the cleanup of the previous effect run calls
\* stop(), then initCamera calls stop() again (part_000 lines 75-85)
CameraOff ==
  /\ isCameraEnabled
  /\ isCameraEnabled' = FALSE
  /\ StopTracker
  /\ stopped' = TRUE
  /\ UNCHANGED <<faceLandmarker, video, initPending, camPending, strayStreams,
                 listeners, startN, calibBit, targetVars, smoothVars, loopVars,
                 armed, pageNow, tickN>>
  /\ UNCHANGED vars

\* initialize() resolves and start() goes on to ask for the camera
\* (part_001 lines 285-316)
InitializeDone ==
  /\ initPending > 0
  /\ initPending' = initPending - 1
  /\ faceLandmarker' = "loaded"
  /\ camPending' = camPending + 1
  /\ UNCHANGED <<video, isCameraEnabled, srcObject, strayStreams, listeners,
                 loadPending, startN, stopped>>
  /\ UNCHANGED <<targetVars, smoothVars, calibVars, loopVars, isRunning, armed,
                 pageNow, tickN>>
  /\ UNCHANGED vars

\* initialize() rejects: start() rejects and the effect reports it
\* (part_001 lines 305-308, part_000 lines 71-74)
InitializeFail ==
  /\ initPending > 0
  /\ initPending' = initPending - 1
  /\ UNCHANGED <<faceLandmarker, video, isCameraEnabled, camPending, srcObject,
                 strayStreams, listeners, loadPending, startN, stopped>>
  /\ UNCHANGED <<targetVars, smoothVars, calibVars, loopVars, isRunning, armed,
                 pageNow, tickN>>
  /\ UNCHANGED vars

\* getUserMedia resolves: start() attaches the stream and adds its
\* loadeddata listener (part_001 lines 326-333)
CameraGranted ==
  /\ camPending > 0
  /\ camPending' = camPending - 1
  /\ video' = "el"
  /\ strayStreams' = IF srcObject # "null" THEN strayStreams + 1 ELSE strayStreams
  /\ srcObject' = "stream"
  /\ listeners' = listeners + 1
  /\ loadPending' = TRUE
  /\ frameFresh' = TRUE
  /\ UNCHANGED <<faceLandmarker, isCameraEnabled, initPending, startN, stopped>>
  /\ UNCHANGED <<lastTrackingTime, inferBit, lastOutcome, lastInferAt>>
  /\ UNCHANGED <<targetVars, smoothVars, calibVars, isRunning, armed, pageNow, tickN>>
  /\ UNCHANGED vars

\* getUserMedia rejects: start() rejects (part_001 lines 334-337)
CameraDenied ==
  /\ camPending > 0
  /\ camPending' = camPending - 1
  /\ UNCHANGED <<faceLandmarker, video, isCameraEnabled, initPending, srcObject,
                 strayStreams, listeners, loadPending, startN, stopped>>
  /\ UNCHANGED <<targetVars, smoothVars, calibVars, loopVars, isRunning, armed,
                 pageNow, tickN>>
  /\ UNCHANGED vars

\* the video element delivers loadeddata for the attached stream: every
\* listener added by start() runs (part_001 lines 329-333)
LoadedData(o, playing) ==
  /\ srcObject # "null" /\ loadPending
  /\ loadPending' = FALSE
  /\ isRunning' = TRUE
  /\ PredictBody(o, playing, listeners)
  /\ armed' = armed + listeners
  /\ UNCHANGED <<faceLandmarker, video, isCameraEnabled, initPending, camPending,
                 srcObject, strayStreams, listeners, startN, stopped>>
  /\ UNCHANGED <<calibVars, pageNow, tickN>>
  /\ UNCHANGED vars

\* an animation frame runs one armed predict (part_001 lines 415-462)
Predict(o, playing) ==
  /\ armed > 0
  /\ tickN < MaxTicks
  /\ tickN' = tickN + 1
  /\ IF ~isRunning \/ faceLandmarker = "null" \/ video = "null"
       THEN /\ armed' = armed - 1
            /\ lastOutcome' = "idle"
            /\ UNCHANGED <<lastTrackingTime, frameFresh, inferBit, lastInferAt,
                           targetVars, smoothVars>>
       ELSE /\ PredictBody(o, playing, 1)
            /\ armed' = Rearm(armed, isRunning)
  /\ UNCHANGED <<camVars, calibVars, isRunning, pageNow>>
  /\ UNCHANGED vars

\* a baseline taken from the raw targets instead of the smoothed state
CopyOfTarget(smoothed, target) == target

\* FaceTracker.calibrate, lines 360-362: { ...this.currentBlendshapes } and
\* its like copy the smoothed state
CopyOf(smoothed, target) == smoothed

\* a calibrate that does not look at isRunning
CalibratesAlways(running) == TRUE

\* FaceTracker.calibrate, line 357
Calibrates(running) == running

\* the calibrate handle of AvatarDisplay calls FaceTracker.calibrate
\* (part_000 lines 44-50, part_001 lines 356-365)
Calibrate ==
  /\ calibBit' = ~calibBit
  /\ IF Calibrates(isRunning)
       THEN /\ neutralBlendshapes' = CopyOf(currentBlendshapes, targetBlendshapes)
            /\ neutralRotation' = CopyOf(rotation, targetRotation)
            /\ neutralPosition' = CopyOf(position, targetPosition)
            /\ isCalibrated' = TRUE
       ELSE UNCHANGED <<neutralVars, isCalibrated>>
  /\ UNCHANGED <<camVars, targetVars, smoothVars, loopVars, isRunning, armed,
                 pageNow, tickN>>
  /\ UNCHANGED vars

\* a blendshape view that is clamped to 1
BoostClamped(val) == IF (val * 3) \div 2 > 1000 THEN 1000 ELSE (val * 3) \div 2

\* FaceTracker.getCalibratedBlendshapes, line 410: val * 1.5
Boost(val) == (val * 3) \div 2

\* FaceTracker.getCalibratedBlendshapes, lines 395-413
GetCalibratedBlendshapes ==
  IF ~isCalibrated THEN currentBlendshapes
  ELSE [key \in DOMAIN currentBlendshapes |->
          LET val == currentBlendshapes[key] - OrZero(neutralBlendshapes, key)
          IN Boost(IF val < 0 THEN 0 ELSE val)]

\* FaceTracker.getCalibratedRotation, lines 370-377
GetCalibratedRotation(calibrated, rot, neutral) ==
  IF ~calibrated THEN rot
  ELSE Vec(rot.x - neutral.x, rot.y - neutral.y, rot.z - neutral.z)

\* a position view that falls back to the tracked position
RawPosition(calibrated, pos, neutral) ==
  IF ~calibrated THEN pos
  ELSE Vec(pos.x - neutral.x, pos.y - neutral.y, pos.z - neutral.z)

\* FaceTracker.getCalibratedPosition, lines 382-389
GetCalibratedPosition(calibrated, pos, neutral) ==
  IF ~calibrated THEN Vec(0, 0, 0)
  ELSE Vec(pos.x - neutral.x, pos.y - neutral.y, pos.z - neutral.z)

\* the camera delivers a new frame to the playing video
NewFrame ==
  /\ srcObject # "null" /\ ~loadPending /\ ~frameFresh
  /\ frameFresh' = TRUE
  /\ UNCHANGED <<lastTrackingTime, inferBit, lastOutcome, lastInferAt>>
  /\ UNCHANGED <<camVars, targetVars, smoothVars, calibVars, isRunning, armed,
                 pageNow, tickN>>
  /\ UNCHANGED vars

\* the page clock advances
NowAdvance ==
  /\ pageNow < MaxNow
  /\ pageNow' = pageNow + 1
  /\ UNCHANGED <<camVars, targetVars, smoothVars, calibVars, loopVars, isRunning,
                 armed, tickN>>
  /\ UNCHANGED vars

NextTrack ==
  \/ CameraOn /\ UNCHANGED animVars
  \/ CameraOff /\ UNCHANGED animVars
  \/ InitializeDone /\ UNCHANGED animVars
  \/ InitializeFail /\ UNCHANGED animVars
  \/ CameraGranted /\ UNCHANGED animVars
  \/ CameraDenied /\ UNCHANGED animVars
  \/ \E o \in Outcomes, playing \in BOOLEAN : LoadedData(o, playing) /\ UNCHANGED animVars
  \/ \E o \in Outcomes, playing \in BOOLEAN : Predict(o, playing) /\ UNCHANGED animVars
  \/ Calibrate /\ UNCHANGED animVars
  \/ NewFrame /\ UNCHANGED animVars
  \/ NowAdvance /\ UNCHANGED animVars

SpecTrack == Init /\ [][NextTrack]_allVars

\* the tracker across several switch-ons of the camera, with the page clock
\* standing still
NextLoop ==
  \/ startN < MaxLoopStarts /\ TurnOn /\ UNCHANGED animVars
  \/ CameraOff /\ UNCHANGED animVars
  \/ InitializeDone /\ UNCHANGED animVars
  \/ CameraGranted /\ UNCHANGED animVars
  \/ \E o \in Outcomes, playing \in BOOLEAN : LoadedData(o, playing) /\ UNCHANGED animVars
  \/ \E o \in Outcomes, playing \in BOOLEAN : Predict(o, playing) /\ UNCHANGED animVars

SpecLoop == Init /\ [][NextLoop]_allVars

\* a tracker that is running on an attached camera stream, with the given
\* targets, smoothed blendshapes, calibration and head position: the state
\* after CameraOn, InitializeDone, CameraGranted, LoadedData, tracking ticks
\* and, when calibrated, a calibrate() with the head at the origin
TrackRunning(target, smoothed, calibrated, baseline, at) ==
  /\ faceLandmarker = "loaded" /\ video = "el"
  /\ lastTrackingTime = FrameInterval /\ isRunning = TRUE
  /\ targetBlendshapes = target /\ currentBlendshapes = smoothed
  /\ neutralBlendshapes = baseline
  /\ neutralRotation = Vec(0, 0, 0) /\ neutralPosition = Vec(0, 0, 0)
  /\ isCalibrated = calibrated
  /\ targetRotation = Vec(0, 0, 0) /\ targetPosition = at
  /\ rotation = Vec(0, 0, 0) /\ position = at
  /\ isCameraEnabled = TRUE /\ initPending = 0 /\ camPending = 0
  /\ srcObject = "stream" /\ strayStreams = 0 /\ listeners = 1
  /\ loadPending = FALSE /\ frameFresh = FALSE /\ armed = 1
  /\ pageNow = FrameInterval
  /\ startN = 1 /\ tickN = 0 /\ stopped = FALSE
  /\ calibBit = calibrated /\ inferBit = TRUE
  /\ lastOutcome = "face" /\ lastInferAt = FrameInterval

\* ======================================================================
\* Repeated smoothing towards a constant target (part_001 lines 464-486)
\* ======================================================================

\* the constant targets, 0.05 to 1.0
SmoothTargets == {50 * k : k \in 1..20}

\* a running tracker whose jawOpen is 0 and whose target is constant
InitSmooth ==
  /\ ClientInit /\ AnimInit
  /\ \E t \in SmoothTargets :
       TrackRunning("jawOpen" :> t, "jawOpen" :> 0, FALSE, <<>>, Vec(0, 0, 0))

\* one call of updateSmoothing with the targets left as they are
SmoothStep ==
  /\ tickN < MaxSmooth
  /\ tickN' = tickN + 1
  /\ LET sm == UpdateSmoothing(<<currentBlendshapes, rotation, position>>,
                               <<targetBlendshapes, targetRotation, targetPosition>>)
     IN /\ currentBlendshapes' = sm[1]
        /\ rotation' = sm[2]
        /\ position' = sm[3]
  /\ UNCHANGED <<camVars, targetVars, calibVars, loopVars, isRunning, armed,
                 pageNow>>
  /\ UNCHANGED <<vars, animVars>>

NextSmooth == SmoothStep

SpecSmooth == InitSmooth /\ [][NextSmooth]_allVars

\* ======================================================================
\* The render tick of AvatarDisplay (src/unnamed/part_000, animate, lines
\* 154-290), with the avatar loaded.  Bones are left out.
\* ======================================================================

Min(a, b) == IF a <= b THEN a ELSE b

\* a snap that includes the threshold
BlinkSnapFrom(score) == IF score >= 400 THEN 1000 ELSE score

\* animate lines 221-225: blink snap
BlinkSnap(score) == IF score > 400 THEN 1000 ELSE score

\* animate lines 231-232
Happy(smileLeft, smileRight) == Min(1000, (3 * (smileLeft + smileRight)) \div 4)

\* an angry weight that ignores the smile
AngryAlone(browLeft, browRight, happy) ==
  Min(1000, (3 * (browLeft + browRight)) \div 4)

\* animate lines 236-237
Angry(browLeft, browRight, happy) ==
  (Min(1000, (3 * (browLeft + browRight)) \div 4) * (1000 - happy)) \div 1000

\* animate line 239
Sad(browInnerUp, happy) == (browInnerUp * (1000 - happy)) \div 1000

\* animate line 240
Surprised(browLeft, browRight) == browLeft + browRight

\* animate lines 243-252: closed-mouth smile
JawAa(jawOpen, happy) ==
  IF happy > 200 THEN 0 ELSE Min(1000, (3 * jawOpen) \div 2)

\* animate lines 256-262
Ou(pucker, happy) ==
  IF pucker > 400 /\ happy < 300 THEN Min(1000, (3 * pucker) \div 2) ELSE 0

\* a composer that writes the tracked mouth while the AI speaks
WritesMouthAlways(talking) == TRUE

\* animate line 242: the tracked mouth is written only while the AI is silent
WritesMouth(talking) == ~talking

\* animate lines 271-273: THREE.MathUtils.lerp(aa, min(1, volume * 4), 0.5)
LipSync(aa, volume) == (aa + Min(1000, 4 * volume)) \div 2

\* a decay without the 0.01 floor
DecayAlways(aa) == (8 * aa) \div 10

\* animate lines 275-276
Decay(aa) == IF aa > 10 THEN (8 * aa) \div 10 ELSE aa

\* animate lines 183-184
Fade(weight) == IF weight > 0 THEN (9 * weight) \div 10 ELSE weight

\* animate lines 214-263: the expression logic of tracking mode on the
\* calibrated blendshapes s
TrackingExpr(e, s, talking) ==
  IF DOMAIN s = {} THEN e
  ELSE LET happy == Happy(OrZero(s, "mouthSmileLeft"), OrZero(s, "mouthSmileRight"))
       IN [e EXCEPT
             !.blinkLeft = BlinkSnap(OrZero(s, "eyeBlinkLeft")),
             !.blinkRight = BlinkSnap(OrZero(s, "eyeBlinkRight")),
             !.happy = happy,
             !.angry = Angry(OrZero(s, "browDownLeft"), OrZero(s, "browDownRight"),
                             happy),
             !.sad = Sad(OrZero(s, "browInnerUp"), happy),
             !.surprised = Surprised(OrZero(s, "browOuterUpLeft"),
                                     OrZero(s, "browOuterUpRight")),
             !.aa = IF WritesMouth(talking) THEN JawAa(OrZero(s, "jawOpen"), happy)
                    ELSE @,
             !.ou = IF WritesMouth(talking) THEN Ou(OrZero(s, "mouthPucker"), happy)
                    ELSE @]

\* animate lines 181-185 and handleAutoBlink (lines 368-379): the expression
\* logic of autonomous mode; sine is Math.sin(Date.now() / 50) * 2
AutoExpr(e, talking, blinking, sine) ==
  LET e1 == IF blinking
              THEN [e EXCEPT !.blink = IF sine < 0 THEN 0 ELSE Min(1000, sine)]
              ELSE e
  IN IF talking THEN e1
     ELSE [e1 EXCEPT !.happy = Fade(@), !.angry = Fade(@)]

\* animate lines 267-277: lip sync, or the decay of aa in autonomous mode
LipSyncExpr(e, talking, cameraActive, volume) ==
  IF talking
    THEN [e EXCEPT !.ou = 0, !.oh = 0, !.aa = LipSync(@, volume)]
    ELSE IF ~cameraActive THEN [e EXCEPT !.aa = Decay(@)]
         ELSE e

\* the values of Math.sin(Date.now() / 50) * 2 that are told apart
SineChoices == {-1000, 600, 1800}

\* a scheduleNextBlink without its clearTimeout
KeepTimeout(count, pending) == count

\* clearTimeout(blinkTimeoutRef.current), lines 382 and 387: the timer the
\* ref holds is cancelled if it is still pending
ClearTimeout(count, pending) == IF pending THEN count - 1 ELSE count

\* scheduleNextBlink, lines 380-384
ScheduleNextBlink(random) ==
  /\ blinkTimers' = ClearTimeout(blinkTimers, blinkTimeout = "armed") + 1
  /\ blinkTimeout' = "armed"
  /\ blinkDelay' = BlinkDelay(random)

\* animate lines 197-198: posX = pos.x * 0.01 and
\* lerp(hips.position.x, hips.position.x + posX * 0.1, 0.1), which is
\* hips.position.x + pos.x * 0.0001
HipsAfter(hips, posX) == hips + posX

\* one render tick: animate (lines 154-290)
Animate(sine, random) ==
  /\ frameN < MaxFrames
  /\ frameN' = frameN + 1
  /\ sinceSwitch' = sinceSwitch + 1
  /\ IF isCameraEnabledRef
       THEN LET posX == GetCalibratedPosition(isCalibrated, position,
                                              neutralPosition).x
            IN hipsX' = HipsAfter(hipsX, posX) /\ hipsAt' = <<posX>>
       ELSE UNCHANGED <<hipsX, hipsAt>>
  /\ LET s == GetCalibratedBlendshapes
         e1 == IF ~isCameraEnabledRef
                 THEN AutoExpr(em, isAiTalkingRef, isBlinkingRef, sine)
                 ELSE TrackingExpr(em, s, isAiTalkingRef)
     IN em' = LipSyncExpr(e1, isAiTalkingRef, isCameraEnabledRef, aiVolumeRef)
  /\ IF ~isCameraEnabledRef /\ isBlinkingRef /\ sine < 0
       THEN isBlinkingRef' = FALSE /\ ScheduleNextBlink(random)
       ELSE UNCHANGED <<isBlinkingRef, blinkTimeout, blinkTimers, blinkDelay>>
  /\ UNCHANGED <<isAiTalkingRef, aiVolumeRef, isCameraEnabledRef>>
  /\ UNCHANGED <<vars, trackVars>>

\* the amplitudes reported by the meter that are told apart
VolumeChoices == {0, 6, 100, 300}

\* the props isAiTalking and aiVolume change and the effect copies them into
\* the refs (part_000 lines 54-58)
PropsChange(talking, volume) ==
  /\ <<talking, volume>> # <<isAiTalkingRef, aiVolumeRef>>
  /\ isAiTalkingRef' = talking
  /\ aiVolumeRef' = volume
  /\ UNCHANGED <<em, isCameraEnabledRef, isBlinkingRef, blinkTimeout, frameN,
                 blinkTimers, blinkDelay, hipsX, hipsAt, sinceSwitch>>
  /\ UNCHANGED <<vars, trackVars>>

\* a pending next-blink timer fires (part_000 line 383)
BlinkTimer ==
  /\ blinkTimers > 0
  /\ blinkTimers' = blinkTimers - 1
  /\ blinkTimeout' = IF blinkTimers = 1 THEN "null" ELSE blinkTimeout
  /\ blinkDelay' = IF blinkTimers = 1 THEN 0 ELSE blinkDelay
  /\ isBlinkingRef' = TRUE
  /\ UNCHANGED <<em, isAiTalkingRef, aiVolumeRef, isCameraEnabledRef, frameN,
                 hipsX, hipsAt, sinceSwitch>>
  /\ UNCHANGED <<vars, trackVars>>

\* blendshape maps that the smoothed state of the tracker can hold
FaceChoices ==
  { <<>>,
    ("eyeBlinkLeft" :> 410 @@ "eyeBlinkRight" :> 390 @@ "jawOpen" :> 400 @@
     "mouthPucker" :> 500),
    ("eyeBlinkLeft" :> 400 @@ "eyeBlinkRight" :> 1000 @@ "mouthSmileLeft" :> 200 @@
     "mouthSmileRight" :> 200 @@ "jawOpen" :> 900 @@ "browDownLeft" :> 600 @@
     "browDownRight" :> 600),
    ("mouthSmileLeft" :> 1000 @@ "mouthSmileRight" :> 1000 @@
     "browDownLeft" :> 1000 @@ "browDownRight" :> 1000 @@ "browInnerUp" :> 800),
    ("browOuterUpLeft" :> 600 @@ "browOuterUpRight" :> 600 @@
     "browInnerUp" :> 900 @@ "jawOpen" :> 800) }

\* calibration baselines
BaselineChoices ==
  { <<>>, ("eyeBlinkLeft" :> 100 @@ "jawOpen" :> 200 @@ "browDownLeft" :> 300) }

\* head positions of the tracker (thousandths)
PositionChoices == {Vec(0, 0, 0), Vec(50, 20, -500)}

\* AvatarDisplay with the avatar loaded: the camera disabled, or the camera
\* enabled and the tracker running, calibrated or not
InitAnim ==
  /\ ClientInit
  /\ \/ TrackInit /\ \E random \in RandomChoices : AnimMount(random)
     \/ /\ \E face \in FaceChoices :
             \/ TrackRunning(face, face, FALSE, <<>>, Vec(50, 20, -500))
             \/ \E baseline \in BaselineChoices, at \in PositionChoices :
                  TrackRunning(face, face, TRUE, baseline, at)
        /\ em = NoExpression
        /\ isAiTalkingRef = FALSE /\ aiVolumeRef = 0 /\ isCameraEnabledRef = TRUE
        /\ isBlinkingRef = FALSE /\ blinkTimeout = "null"
        /\ frameN = 0
        /\ blinkTimers = 0 /\ blinkDelay = 0
        /\ hipsX = 0 /\ hipsAt = <<>> /\ sinceSwitch = 0

NextAnim ==
  \/ \E sine \in SineChoices, random \in RandomChoices : Animate(sine, random)
  \/ \E talking \in BOOLEAN, volume \in VolumeChoices : PropsChange(talking, volume)
  \/ BlinkTimer

SpecAnim == InitAnim /\ [][NextAnim]_allVars

\* ======================================================================
\* The automatic blink and the camera setting (part_000 lines 53-57, 60-87
\* and 368-388): the render tick, the blink timer and the effects that run
\* when the prop isCameraEnabled changes
\* ======================================================================

\* the effects of AvatarDisplay other than the camera effect when the camera
\* is switched on: the ref is synchronised (line 56) and the cleanup of the
\* blink effect clears the timer (line 387)
CameraEnabledEffects ==
  /\ isCameraEnabledRef' = TRUE
  /\ blinkTimers' = ClearTimeout(blinkTimers, blinkTimeout = "armed")
  /\ blinkTimeout' = "null"
  /\ blinkDelay' = IF ClearTimeout(blinkTimers, blinkTimeout = "armed") = 0
                     THEN 0 ELSE blinkDelay
  /\ sinceSwitch' = 0
  /\ UNCHANGED <<em, isAiTalkingRef, aiVolumeRef, isBlinkingRef, frameN, hipsX,
                 hipsAt>>

\* the same effects when the camera is switched off: the ref is synchronised
\* and the blink effect schedules the next blink (line 386)
CameraDisabledEffects(random) ==
  /\ isCameraEnabledRef' = FALSE
  /\ ScheduleNextBlink(random)
  /\ sinceSwitch' = 0
  /\ UNCHANGED <<em, isAiTalkingRef, aiVolumeRef, isBlinkingRef, frameN, hipsX,
                 hipsAt>>

\* AvatarDisplay mounted with the camera disabled
InitBlink ==
  /\ ClientInit /\ TrackInit
  /\ \E random \in RandomChoices : AnimMount(random)

NextBlink ==
  \/ \E sine \in SineChoices, random \in RandomChoices : Animate(sine, random)
  \/ BlinkTimer
  \/ CameraOn /\ CameraEnabledEffects
  \/ \E random \in RandomChoices : CameraOff /\ CameraDisabledEffects(random)

SpecBlink == InitBlink /\ [][NextBlink]_allVars

\* ======================================================================
\* Claims about inbound playback, checked under SpecPlay
\* ======================================================================

\* C1: every buffer is started at max(nextStartTime, device clock at the
\* moment it is scheduled), so no buffer is given a start time earlier than
\* the device clock at scheduling.
C1_StartNotBeforeClock ==
  \A b \in scheduled : b.start >= b.at

\* C2: gapless playback. While no interruption is handled and no message
\* finds the device clock past the cursor, each buffer is started exactly at
\* the previous buffer's start plus the previous buffer's duration, and the
\* cursor equals the first start of the run plus the sum of its durations.
C2_Gapless ==
  /\ [](contiguous => /\ nextStartTime = runStart + runSum
                      /\ nextStartTime = lastStart + lastDur)
  /\ [][\A b \in scheduled' \ scheduled :
          contiguous => b.start = lastStart + lastDur]_vars

\* C2 witness: durations 0.5 s and 0.3 s at clock 0 are started at 0 and 0.5
\* and leave the cursor at 0.8.
C2_Witness ==
  /\ clock = 0 /\ nextStartTime = 8 /\ contiguous
  /\ runStart = 0 /\ runSum = 8
  /\ \E a, b \in scheduled : /\ a.start = 0 /\ a.dur = 5
                             /\ b.start = 5 /\ b.dur = 3

\* C3: when a delivered message carries the interrupted flag, the cursor is 0
\* and onAiSpeakingStop has been emitted when the handler returns control.
C3_InterruptSynchronous ==
  [][(msgCount' # msgCount /\ lastIntr')
       => (nextStartTime' = 0 /\ stopBit' # stopBit)]_vars

\* C4 as stated: onAiSpeakingStart is emitted only when no earlier buffer is
\* still pending and the speaking state is not already Speaking.
C4_StartOnlyWhenFirst ==
  [][startBit' # startBit => (~AudioPending /\ speaking = "Idle")]_vars

\* C4 amended: onAiSpeakingStart is emitted exactly by the steps in which
\* handleMessage takes an audio payload into decoding, whether or not earlier
\* audio is pending or the speaking state is already Speaking.
C4_StartPerPayload ==
  [][(startBit' # startBit) <=> (inflight' \ inflight # {})]_vars

\* C4 witness: a second payload was taken while the first was still being
\* decoded, and both emitted onAiSpeakingStart.
C4_Witness ==
  /\ Cardinality(inflight) = 2 /\ msgCount = 2
  /\ startBit = FALSE /\ speaking = "Speaking"

\* C5: absent an interruption, the end of a buffer emits onAiSpeakingStop only
\* when no other received chunk is still scheduled or still being decoded.
C5_StopOnlyWhenDrained ==
  [][(~intrSeen /\ scheduled' # scheduled /\ scheduled' \subseteq scheduled
        /\ stopBit' # stopBit)
       => (inflight = {} /\ \A b \in scheduled' : ~Pending(b))]_vars

\* C6: the speaking state does not stay Speaking with nothing pending: once
\* every received chunk has left decoding and every started buffer has ended,
\* onAiSpeakingStop has followed the last onAiSpeakingStart.
C6_IdleWhenDrained ==
  (inflight = {} /\ scheduled = {}) => speaking = "Idle"

\* C7: an undecodable chunk leaves the cursor and the speaking state as if it
\* had never arrived: when every payload received so far was dropped by the
\* decoder and no interruption was handled, the state is the initial one.
C7_DroppedChunkLeavesNoTrace ==
  (msgCount > 0 /\ inflight = {} /\ ~everStarted /\ ~intrSeen)
    => (speaking = "Idle" /\ nextStartTime = 0)

\* C28: nextStartTime never decreases from one state to the next, except in
\* the step that handles an interruption, where it becomes 0.
C28_CursorMonotone ==
  [][nextStartTime' < nextStartTime =>
       /\ nextStartTime' = 0
       /\ intrSeen' /\ stopBit' # stopBit /\ speaking' = "Idle"]_vars

\* C28 witness: an interruption reset a cursor that buffers had advanced.
C28_Witness ==
  intrSeen /\ everStarted /\ nextStartTime = 0 /\ scheduled # {}

\* C29: buffers are scheduled in the order their messages arrived: of two
\* started buffers, the one of the earlier message has the earlier or equal
\* start time.
C29_ArrivalOrder ==
  \A a, b \in scheduled : a.id < b.id => a.start <= b.start

\* ======================================================================
\* Claims about the life of the client, checked under Spec (C12: SpecSend)
\* ======================================================================

\* C8: after disconnect() has completed the metering timer is cancelled, the
\* capture processor is disconnected and null, every microphone track is
\* stopped, both audio contexts are closed and the session references are
\* null; no volume event is emitted afterwards.
C8_TornDown ==
  /\ [](discPc = "done" =>
          /\ ~timerActive /\ volumeInterval = "null"
          /\ ~procConnected /\ processor = "null" /\ source = "null"
          /\ micTracks = "stopped" /\ mediaStream = "null"
          /\ inCtxState = "closed" /\ inputAudioContext = "null"
          /\ outCtxState = "closed" /\ outputAudioContext = "null"
          /\ currentSession = "null" /\ sessionPromise = "null")
  /\ [][discPc = "done" =>
          (aiVolBit' = aiVolBit /\ userVolBit' = userVolBit)]_vars

\* C8 witness: disconnect() completed on a client that captured a block and
\* received a message.
C8_Witness ==
  discPc = "done" /\ blockCount > 0 /\ msgCount > 0

\* C9: when connect() has failed and the application has handled the failure,
\* both audio contexts, the metering timer and the microphone stream that
\* connect acquired are released.
C9_FailedConnectReleases ==
  connPc = "failed" =>
    /\ inCtxState \in {"closing", "closed"}
    /\ outCtxState \in {"closing", "closed"}
    /\ ~timerActive
    /\ micTracks # "live"

\* C10: when the established session closes or reports an error while the
\* application is connected, the callback surfaces the failure through
\* onError and starts the teardown of the audio engine.
C10_SessionFailureTearsDown ==
  [][(status = "connected" /\ remote = "open"
        /\ remote' \in {"errored", "closed"})
       => (errorN' > errorN /\ discPc' # "idle")]_vars

\* C11: each fatal failure produces exactly one onError: once connect() has
\* failed or the session has reported an error, onError was emitted once.
C11_OneErrorPerFailure ==
  (connPc = "failed" \/ remote = "errored") => errorN = 1

\* C12: microphone blocks reach the session in capture order: the blocks sent
\* so far, followed by the blocks still queued behind the session promise, are
\* in the order they were captured.
C12_CaptureOrder ==
  LET all == sent \o queue
  IN \A i, j \in 1..Len(all) : i < j => all[i] < all[j]

\* C12 witness: two blocks were captured before the session promise resolved
\* and were sent, in order, when it did.
C12_Witness ==
  flushed = 2 /\ Len(sent) >= 2 /\ sent[1] = 1 /\ sent[2] = 2

\* ======================================================================
\* Claims about the face tracker, checked under SpecTrack
\* ======================================================================

\* C13: calibrate() while tracking is not running (before start, after
\* stop, or after start was called but before the loop has begun) changes
\* nothing: the is-calibrated flag stays false and the baseline
\* blendshapes, rotation and position are untouched.
C13_CalibrateNeedsRunning ==
  [][(calibBit' # calibBit /\ ~isRunning) =>
       /\ ~isCalibrated /\ ~isCalibrated'
       /\ UNCHANGED <<neutralVars, targetVars, smoothVars, isRunning>>]_allVars

\* C13 witness: calibrate() was called after start() and before the loop
\* began, and nothing is calibrated.
C13_Witness ==
  calibBit /\ ~isRunning /\ loadPending /\ ~isCalibrated

\* C14: in every reachable state the tracker is calibrated only if tracking
\* is running.
C14_CalibratedOnlyRunning ==
  isCalibrated => isRunning

\* C14 witness: a calibration taken while tracking runs.
C14_Witness ==
  isCalibrated /\ isRunning /\ calibBit

\* C15: after stop() returned and until start() is called again, tracking is
\* not running, no camera stream is open and nothing is calibrated.
C15_StoppedIsQuiet ==
  stopped =>
    /\ ~isRunning
    /\ srcObject = "null" /\ strayStreams = 0
    /\ ~isCalibrated

\* C16: inference runs only on a fresh video frame, and never less than
\* 1000/24 ms after the previous inference.
C16_InferenceThrottled ==
  [][inferBit' # inferBit =>
       /\ frameFresh
       /\ lastInferAt >= 0 => pageNow - lastInferAt >= FrameInterval]_allVars

\* C16 witness: a second inference has run.
C16_Witness ==
  ~inferBit /\ lastInferAt >= 2 * FrameInterval

\* C17 as stated: a tick that does not pass the gate changes neither the
\* targets nor the smoothed rotation, position and blendshapes.
C17_GatedTickIsNoOp ==
  [][(tickN' # tickN /\ lastOutcome' = "gated") =>
       UNCHANGED <<targetVars, smoothVars>>]_allVars

\* C17 amended: a tick that does not pass the gate runs no inference and
\* leaves the targets unchanged, but applies one smoothing step to rotation,
\* position and blendshapes, and re-arms the loop.
C17_GatedTickOnlySmooths ==
  [][(tickN' # tickN /\ lastOutcome' = "gated") =>
       /\ UNCHANGED <<targetVars, inferBit, lastTrackingTime>>
       /\ <<currentBlendshapes, rotation, position>>' =
            UpdateSmoothing(<<currentBlendshapes, rotation, position>>,
                            <<targetBlendshapes, targetRotation, targetPosition>>)
       /\ armed' = armed]_allVars

\* C17 witness: a gated tick moved the smoothed state towards the targets.
C17_Witness ==
  /\ lastOutcome = "gated" /\ tickN > 0 /\ armed > 0
  /\ "jawOpen" \in DOMAIN currentBlendshapes
  /\ currentBlendshapes["jawOpen"] > 700

\* C18: when the inference throws, the error is caught: the targets are
\* unchanged, tracking stays running and the loop is armed again.
C18_ThrowIsCaught ==
  [][(inferBit' # inferBit /\ lastOutcome' = "threw") =>
       /\ UNCHANGED targetVars
       /\ isRunning'
       /\ armed' >= armed /\ armed' > 0]_allVars

\* C18 witness: an inference threw after targets had been set, and the loop
\* is still armed.
C18_Witness ==
  /\ lastOutcome = "threw" /\ isRunning /\ armed > 0
  /\ DOMAIN targetBlendshapes # {}

\* C19: the calibrated blendshapes are max(0, current - baseline) * 1.5 for
\* every key of the current frame, a key missing from the baseline counting
\* as 0 and with no upper clamp; uncalibrated, the current scores unchanged.
C19_CalibratedBlendshapes ==
  LET view == GetCalibratedBlendshapes
  IN /\ DOMAIN view = DOMAIN currentBlendshapes
     /\ \A key \in DOMAIN currentBlendshapes :
          LET base == IF key \in DOMAIN neutralBlendshapes
                        THEN neutralBlendshapes[key] ELSE 0
          IN view[key] = IF isCalibrated
                           THEN (3 * Max(0, currentBlendshapes[key] - base)) \div 2
                           ELSE currentBlendshapes[key]

\* C19 witness: calibrated, a key that the baseline lacks has a view above 1.
C19_Witness ==
  /\ isCalibrated
  /\ \E key \in DOMAIN currentBlendshapes \ DOMAIN neutralBlendshapes :
       GetCalibratedBlendshapes[key] > 1000

\* C20: the calibrated rotation is rotation minus baseline when calibrated
\* and the tracked rotation otherwise; the calibrated position is position
\* minus baseline when calibrated and the zero vector otherwise.
C20_CalibratedPose ==
  LET rot == GetCalibratedRotation(isCalibrated, rotation, neutralRotation)
      pos == GetCalibratedPosition(isCalibrated, position, neutralPosition)
  IN IF isCalibrated
       THEN /\ rot.x + neutralRotation.x = rotation.x
            /\ rot.y + neutralRotation.y = rotation.y
            /\ rot.z + neutralRotation.z = rotation.z
            /\ pos.x + neutralPosition.x = position.x
            /\ pos.y + neutralPosition.y = position.y
            /\ pos.z + neutralPosition.z = position.z
       ELSE rot = rotation /\ pos = [x |-> 0, y |-> 0, z |-> 0]

\* C20 witness: stop() discarded the calibration while the tracked position
\* is away from the origin.
C20_Witness ==
  /\ stopped /\ ~isCalibrated /\ calibBit
  /\ position.z # 0 /\ neutralPosition.z # 0

\* C21: the calibration baseline is a snapshot: a calibrate() while running
\* makes it equal to the tracked blendshapes, rotation and position of that
\* moment, and nothing changes it afterwards but a later calibrate() or a
\* stop().
C21_BaselineIsSnapshot ==
  [][/\ (calibBit' # calibBit /\ isRunning) =>
          /\ isCalibrated'
          /\ neutralBlendshapes' = currentBlendshapes
          /\ neutralRotation' = rotation
          /\ neutralPosition' = position
     /\ (neutralVars' # neutralVars) =>
          \/ calibBit' # calibBit
          \/ isCameraEnabled' # isCameraEnabled]_allVars

\* C21 witness: tracking ticks have moved the tracked state away from the
\* baseline that a calibrate() took.
C21_Witness ==
  /\ isCalibrated /\ DOMAIN neutralBlendshapes # {}
  /\ neutralBlendshapes # currentBlendshapes
  /\ neutralPosition # position

\* ======================================================================
\* Claims about smoothing (SpecSmooth) and about the render tick (SpecAnim)
\* ======================================================================

\* C22: smoothing converges: from state 0 with a constant target, every
\* tick moves the state towards the target without passing it, and with the
\* target 1.0 the state is at least 0.999 from the 10th tick on.
C22_SmoothingConverges ==
  [][tickN' # tickN =>
       LET target == targetBlendshapes["jawOpen"]
           before == currentBlendshapes["jawOpen"]
           after == currentBlendshapes'["jawOpen"]
       IN /\ before <= after /\ after <= target
          /\ before < target - 1 => before < after
          /\ (target = 1000 /\ tickN' >= 10) => after >= 999]_allVars

\* C22 witness: ten ticks towards 1.0 have been applied and the state is
\* within 0.001 of the target without having passed it.
C22_Witness ==
  /\ tickN = 10 /\ targetBlendshapes["jawOpen"] = 1000
  /\ currentBlendshapes["jawOpen"] >= 999
  /\ currentBlendshapes["jawOpen"] <= 1000

\* C23: in tracking mode each eye's blink weight is 1.0 when the blink score
\* of that eye is greater than 0.4 and the score itself otherwise; exactly
\* 0.4 is not snapped.
C23_BlinkSnap ==
  [][(frameN' # frameN /\ isCameraEnabledRef) =>
       LET s == GetCalibratedBlendshapes
           left == OrZero(s, "eyeBlinkLeft")
           right == OrZero(s, "eyeBlinkRight")
       IN /\ em'.blinkLeft = IF left > 400 THEN 1000 ELSE left
          /\ em'.blinkRight = IF right > 400 THEN 1000 ELSE right]_allVars

\* C23 witness: a tracking tick snapped the left eye at 0.41 and left the
\* right eye at 0.39.
C23_Witness ==
  /\ frameN > 0 /\ isCameraEnabledRef /\ ~isCalibrated
  /\ OrZero(currentBlendshapes, "eyeBlinkLeft") = 410
  /\ OrZero(currentBlendshapes, "eyeBlinkRight") = 390
  /\ em.blinkLeft = 1000 /\ em.blinkRight = 390

\* C24: in tracking mode happy is min(1, 1.5 * the average smile) and angry
\* is min(1, 1.5 * the average brow-down) * (1 - happy), so angry is 0 when
\* happy is 1 and angry never exceeds 1 - happy.
C24_HappyAngry ==
  [][(frameN' # frameN /\ isCameraEnabledRef) =>
       LET s == GetCalibratedBlendshapes
           smile == OrZero(s, "mouthSmileLeft") + OrZero(s, "mouthSmileRight")
           brow == OrZero(s, "browDownLeft") + OrZero(s, "browDownRight")
           happy == IF (3 * smile) \div 4 > 1000 THEN 1000 ELSE (3 * smile) \div 4
           frown == IF (3 * brow) \div 4 > 1000 THEN 1000 ELSE (3 * brow) \div 4
       IN /\ em'.happy = happy
          /\ em'.angry = (frown * (1000 - happy)) \div 1000
          /\ em'.happy = 1000 => em'.angry = 0
          /\ em'.angry <= 1000 - em'.happy]_allVars

\* C24 witness: a tracking tick on a full smile with fully lowered brows
\* left happy at 1 and angry at 0.
C24_Witness ==
  /\ frameN > 0 /\ isCameraEnabledRef /\ ~isCalibrated
  /\ OrZero(currentBlendshapes, "mouthSmileLeft") = 1000
  /\ OrZero(currentBlendshapes, "browDownLeft") = 1000
  /\ em.happy = 1000 /\ em.angry = 0

\* C25: in tracking mode while the AI is not speaking, a render tick leaves
\* aa at 0 when happy is greater than 0.2 and at min(1, 1.5 * jawOpen)
\* otherwise.
C25_JawClosedRule ==
  [][(frameN' # frameN /\ isCameraEnabledRef /\ ~isAiTalkingRef) =>
       LET jaw == OrZero(GetCalibratedBlendshapes, "jawOpen")
       IN em'.aa = IF em'.happy > 200 THEN 0
                   ELSE IF (3 * jaw) \div 2 > 1000 THEN 1000
                   ELSE (3 * jaw) \div 2]_allVars

\* C26: on every render tick while the AI speaks, in both modes, ou and oh
\* become 0 and aa moves halfway from its previous value to
\* min(1, 4 * aiVolume); no tracked jaw or pucker value is written.
C26_LipSyncOverride ==
  [][(frameN' # frameN /\ isAiTalkingRef) =>
       LET open == IF 4 * aiVolumeRef > 1000 THEN 1000 ELSE 4 * aiVolumeRef
       IN /\ em'.ou = 0 /\ em'.oh = 0
          /\ em'.aa = (em.aa + open) \div 2]_allVars

\* C26 witness: a tracking tick during speech left aa at a lip-sync value
\* although the tracked jaw is open wider and the lips are puckered.
C26_Witness ==
  /\ frameN > 1 /\ isAiTalkingRef /\ isCameraEnabledRef /\ ~isCalibrated
  /\ OrZero(currentBlendshapes, "mouthPucker") = 500
  /\ OrZero(currentBlendshapes, "jawOpen") = 400
  /\ em.aa = 300 /\ em.ou = 0 /\ aiVolumeRef = 100

\* C27: every expression weight lies in [0,1].
C27_WeightsInUnitRange ==
  \A name \in DOMAIN em : em[name] >= 0 /\ em[name] <= 1000

\* C30: while the AI is not speaking and tracking is inactive, every render
\* tick multiplies aa by 0.8.
C30_GeometricDecay ==
  [][(frameN' # frameN /\ ~isCameraEnabledRef /\ ~isAiTalkingRef) =>
       em'.aa = (8 * em.aa) \div 10]_allVars

\* C32: in tracking mode the hip offset is a function of the calibrated x
\* position: a render tick at the x position of the tick that wrote the
\* offset last leaves the offset as it is, and so does a tick at x = 0.
C32_HipOffsetIsFunction ==
  [][(frameN' # frameN /\ isCameraEnabledRef) =>
       LET posX == GetCalibratedPosition(isCalibrated, position,
                                         neutralPosition).x
       IN /\ hipsAt = <<posX>> => hipsX' = hipsX
          /\ posX = 0 => hipsX' = hipsX]_allVars

\* C33: in tracking mode with the AI not speaking a render tick rewrites aa
\* from the tracked jaw also when the blendshape map is empty: the missing
\* jaw counts as 0 and aa becomes 0.
C33_EmptyMapRewritesAa ==
  [][(frameN' # frameN /\ isCameraEnabledRef /\ ~isAiTalkingRef
        /\ DOMAIN GetCalibratedBlendshapes = {}) =>
       em'.aa = 0]_allVars

\* ======================================================================
\* Claims about the automatic blink, checked under SpecBlink
\* ======================================================================

\* C31: at most one next-blink timer is pending, none while the camera is
\* enabled, each delay lies in [1000 ms, 5000 ms); in autonomous mode a timer
\* is pending or a pulse is in progress, and a render tick during a pulse
\* either continues it or ends it with blink at 0 and the next timer armed.
C31_BlinkScheduling ==
  /\ [](/\ blinkTimers <= 1
        /\ isCameraEnabledRef => blinkTimers = 0
        /\ blinkTimers > 0 => (blinkDelay >= 1000 /\ blinkDelay < 5000)
        /\ ~isCameraEnabledRef => (blinkTimers = 1 \/ isBlinkingRef))
  /\ [][(frameN' # frameN /\ ~isCameraEnabledRef /\ isBlinkingRef) =>
          \/ ~isBlinkingRef' /\ em'.blink = 0 /\ blinkTimers' = 1
          \/ isBlinkingRef' /\ blinkTimers' = blinkTimers]_allVars

\* C31 witness: back in autonomous mode after the camera was on, a pulse is
\* showing while the timer armed by the blink effect is pending, so the end
\* of the pulse will schedule over a pending timer.
C31_Witness ==
  /\ ~isCameraEnabledRef /\ startN = 1
  /\ isBlinkingRef /\ em.blink > 0
  /\ blinkTimers = 1 /\ blinkDelay = 4996

\* C37: in tracking mode the autonomous blink weight is 0 once SettleTicks
\* render ticks have passed since the camera was enabled.
C37_BlinkClearedInTracking ==
  (isCameraEnabledRef /\ sinceSwitch >= SettleTicks) => em.blink = 0

\* ======================================================================
\* Claims about the tracking loop across restarts, checked under SpecLoop
\* ======================================================================

\* C34: at most one self-rescheduling predict callback is armed at a time.
C34_OneLoopArmed == armed <= 1

\* ======================================================================
\* Claims about the client after disconnect() (C35: SpecSend, C36: Spec)
\* ======================================================================

C36_NoScheduleAfterDisconnect ==
  [][discPc # "idle" => scheduled' \subseteq scheduled]_vars

====
